---- MODULE Spec2Model ----
(***************************************************************************)
(* State-machine model of src/mnist/main.py: the MNIST training script.    *)
(* main() parses the options, builds the loaders, the Net and the Adadelta *)
(* optimizer with a StepLR scheduler, then for epoch = 1..epochs runs      *)
(* train(), test() and scheduler.step(), and finally saves the parameters  *)
(* when --save-model is given.                                             *)
(*                                                                         *)
(* Tensors are abstracted by what the loops do with them: the parameters   *)
(* and the Adadelta accumulators by the number of updates applied to them, *)
(* the gradient buffers by the set of batches whose gradient they hold,    *)
(* losses by small naturals, the learning rate by an exact fraction.       *)
(***************************************************************************)
EXTENDS Integers, Sequences, FiniteSets

\* ---- bounds of the model ----
MaxEpochs == 2
MaxSamples == 3
MaxBatch == 2
MaxLoss == 1
MaxClass == 1

\* StepLR(optimizer, step_size=1, ...)
StepSize == 1

VARIABLES
    pc,             \* position of main()
    args,           \* the parsed options
    n_train,        \* len(dataset1)
    n_test,         \* len(dataset2)
    eval_set,       \* per-sample results of the network on dataset2 (fixed-set runs)
    model_built,    \* Net() exists
    opt_built,      \* the Adadelta optimizer exists
    params,         \* number of updates applied to the model parameters
    opt_acc,        \* number of updates applied to the Adadelta accumulators
    lr,             \* optimizer.param_groups[..]['lr'] as <<numerator, denominator>>
    last_epoch,     \* scheduler.last_epoch
    training,       \* model.training
    grad_enabled,   \* torch.is_grad_enabled()
    prev_grad,      \* the mode torch.no_grad() saved on entry
    has_graph,      \* the last forward output carries an autograd graph
    grad,           \* the batches <<epoch, batch_idx>> whose gradient is in .grad
    epoch,          \* loop variable of main()
    batch_idx,      \* loop variable of train()
    data_len,       \* len(data) of the current batch
    loss,           \* loss.item() of the current training batch
    test_idx,       \* index of the current batch of test()
    test_loss,      \* local of test()
    correct,        \* local of test()
    console,        \* the last line printed
    saved,          \* the files written by torch.save
    fail_pc,        \* where the run failed
    fail_cause,     \* "none", "config" or "runtime"
    \* ---- history of the run ----
    trains_started, trains_done, tests_started, tests_done, scheds,
    n_batches,      \* training batches taken from the loader, all epochs
    batch_ops,      \* the steps done on the current training batch
    pass_updates,   \* batch indices updated on in the current train() call
    pass_samples,   \* samples taken through optimizer.step() in the current call
    pass_reports    \* progress lines printed in the current train() call

vars == <<pc, args, n_train, n_test, eval_set, model_built, opt_built, params,
          opt_acc, lr, last_epoch, training, grad_enabled, prev_grad, has_graph,
          grad, epoch, batch_idx, data_len, loss, test_idx, test_loss, correct,
          console, saved, fail_pc, fail_cause, trains_started, trains_done,
          tests_started, tests_done, scheds, n_batches, batch_ops, pass_updates,
          pass_samples, pass_reports>>

confVars == <<args, n_train, n_test, eval_set>>
buildVars == <<model_built, opt_built>>
optVars == <<params, opt_acc, lr, last_epoch>>
modeVars == <<training, grad_enabled, prev_grad>>
trainLocals == <<batch_idx, loss>>
testLocals == <<test_idx, test_loss, correct>>
failVars == <<fail_pc, fail_cause>>
orderVars == <<trains_started, trains_done, tests_started, tests_done, scheds>>
passVars == <<n_batches, batch_ops, pass_updates, pass_samples, pass_reports>>

\* ---- helpers ----
Min(a, b) == IF a < b THEN a ELSE b

RECURSIVE Pow(_, _)
Pow(b, n) == IF n = 0 THEN 1 ELSE b * Pow(b, n - 1)

\* '{:.0f}'.format(num / den): round to nearest, ties to even
RoundHalfEven(num, den) ==
    LET q == num \div den
        r == num % den
    IN  IF 2 * r < den THEN q
        ELSE IF 2 * r > den THEN q + 1
        ELSE IF q % 2 = 0 THEN q ELSE q + 1

\* len(DataLoader(dataset, batch_size=b)) with drop_last=False
NumBatches(n, b) == (n + b - 1) \div b

\* size of batch i: the last batch may be partial
BatchLen(n, b, i) == Min(b, n - i * b)

\* the samples (1-based) of batch i
BatchSamples(n, b, i) == { s \in 1..n : i * b < s /\ s <= i * b + BatchLen(n, b, i) }

RECURSIVE SumOver(_, _)
SumOver(S, f) ==
    IF S = {} THEN 0
    ELSE LET s == CHOOSE x \in S : TRUE IN f[s] + SumOver(S \ {s}, f)

Classes == 0..MaxClass
\* the label dataset2 gives sample s
TestLabel(s) == s % (MaxClass + 1)
\* what the network yields on one evaluation sample: its negative
\* log-likelihood and its arg-max class
Outcome == [nll : 0..MaxLoss, pred : Classes]

\* the (lr, gamma) pairs tried: lr an integer, gamma a fraction <<num, den>>
Rates == { [lr |-> 1, gamma |-> <<7, 10>>], [lr |-> 2, gamma |-> <<1, 2>>] }

NoArgs == [epochs |-> 0, batch_size |-> 0, test_batch_size |-> 0, log_interval |-> 0,
           dry_run |-> FALSE, save_model |-> FALSE, lr |-> 0, gamma |-> <<0, 1>>]

Tag == <<epoch, batch_idx>>

Init ==
    /\ pc = "parse"
    /\ args = NoArgs
    /\ n_train = 0 /\ n_test = 0 /\ eval_set = <<>>
    /\ model_built = FALSE /\ opt_built = FALSE
    /\ params = 0 /\ opt_acc = 0 /\ lr = <<0, 1>> /\ last_epoch = 0
    /\ training = TRUE /\ grad_enabled = TRUE /\ prev_grad = TRUE
    /\ has_graph = FALSE /\ grad = {}
    /\ epoch = 0 /\ batch_idx = -1 /\ data_len = 0 /\ loss = 0
    /\ test_idx = -1 /\ test_loss = 0 /\ correct = 0
    /\ console = [kind |-> "none"]
    /\ saved = <<>>
    /\ fail_pc = "none" /\ fail_cause = "none"
    /\ trains_started = 0 /\ trains_done = 0 /\ tests_started = 0
    /\ tests_done = 0 /\ scheds = 0
    /\ n_batches = 0 /\ batch_ops = <<>> /\ pass_updates = <<>>
    /\ pass_samples = 0 /\ pass_reports = 0

\* ---- main(): options, loaders, model ----

\* parser.parse_args(): an unparsable value exits; otherwise the options are fixed
ParseArgs ==
    /\ pc = "parse"
    /\ \/ /\ pc' = "failed"
          /\ fail_pc' = "parse"
          /\ fail_cause' = "config"
          /\ UNCHANGED args
       \/ /\ \E e \in 1..MaxEpochs, b \in 1..MaxBatch, tb \in 1..MaxBatch,
               li \in 0..MaxBatch, dr \in BOOLEAN, sv \in BOOLEAN, r \in Rates :
                args' = [epochs |-> e, batch_size |-> b, test_batch_size |-> tb,
                         log_interval |-> li, dry_run |-> dr, save_model |-> sv,
                         lr |-> r.lr, gamma |-> r.gamma]
          /\ pc' = "setup"
          /\ UNCHANGED failVars
    /\ UNCHANGED <<n_train, n_test, eval_set, buildVars, optVars, modeVars, has_graph,
                   grad, epoch, trainLocals, data_len, testLocals, console, saved,
                   orderVars, passVars>>

\* seed, device, datasets and loaders
Setup ==
    /\ pc = "setup"
    /\ \E nt \in 1..MaxSamples, ne \in 1..MaxSamples :
          /\ n_train' = nt
          /\ n_test' = ne
    /\ pc' = "build"
    /\ UNCHANGED <<args, eval_set, buildVars, optVars, modeVars, has_graph, grad, epoch,
                   trainLocals, data_len, testLocals, console, saved, failVars,
                   orderVars, passVars>>

\* Net().to(device), Adadelta(lr=args.lr), StepLR(step_size=1, gamma=args.gamma)
Build ==
    /\ pc = "build"
    /\ model_built' = TRUE
    /\ opt_built' = TRUE
    /\ params' = 0
    /\ opt_acc' = 0
    /\ lr' = <<args.lr, 1>>
    /\ last_epoch' = 0
    /\ pc' = "epoch_head"
    /\ UNCHANGED <<confVars, modeVars, has_graph, grad, epoch, trainLocals, data_len,
                   testLocals, console, saved, failVars, orderVars, passVars>>

\* a loop head that runs one epoch too many
EpochHeadOffByOne ==
    /\ pc = "epoch_head"
    /\ IF epoch <= args.epochs
       THEN /\ epoch' = epoch + 1
            /\ pc' = "train_enter"
       ELSE /\ pc' = "save"
            /\ UNCHANGED epoch
    /\ UNCHANGED <<confVars, buildVars, optVars, modeVars, has_graph, grad, trainLocals,
                   data_len, testLocals, console, saved, failVars, orderVars, passVars>>

\* for epoch in range(1, args.epochs + 1)
EpochHead ==
    /\ pc = "epoch_head"
    /\ IF epoch < args.epochs
       THEN /\ epoch' = epoch + 1
            /\ pc' = "train_enter"
       ELSE /\ pc' = "save"
            /\ UNCHANGED epoch
    /\ UNCHANGED <<confVars, buildVars, optVars, modeVars, has_graph, grad, trainLocals,
                   data_len, testLocals, console, saved, failVars, orderVars, passVars>>

\* ---- train() ----

\* model.train() and the start of the loop over train_loader
TrainEnter ==
    /\ pc = "train_enter"
    /\ training' = TRUE
    /\ batch_idx' = -1
    /\ trains_started' = trains_started + 1
    /\ pass_updates' = <<>>
    /\ pass_samples' = 0
    /\ pass_reports' = 0
    /\ pc' = "fetch"
    /\ UNCHANGED <<confVars, buildVars, optVars, grad_enabled, prev_grad, has_graph, grad,
                   epoch, loss, data_len, testLocals, console, saved, failVars,
                   trains_done, tests_started, tests_done, scheds, n_batches, batch_ops>>

\* the next (data, target) of the loader, or the end of the loop and the
\* return of train(), where its locals end
TrainFetch ==
    /\ pc = "fetch"
    /\ IF batch_idx + 1 < NumBatches(n_train, args.batch_size)
       THEN /\ batch_idx' = batch_idx + 1
            /\ data_len' = BatchLen(n_train, args.batch_size, batch_idx + 1)
            /\ n_batches' = n_batches + 1
            /\ batch_ops' = <<>>
            /\ pc' = "zero_grad"
            /\ UNCHANGED <<trains_done, loss>>
       ELSE /\ trains_done' = trains_done + 1
            /\ batch_idx' = -1
            /\ data_len' = 0
            /\ loss' = 0
            /\ pc' = "test_enter"
            /\ UNCHANGED <<n_batches, batch_ops>>
    /\ UNCHANGED <<confVars, buildVars, optVars, modeVars, has_graph, grad, epoch,
                   testLocals, console, saved, failVars, trains_started, tests_started,
                   tests_done, scheds, pass_updates, pass_samples, pass_reports>>

\* a loop that forgets optimizer.zero_grad()
ZeroGradMissing ==
    /\ pc = "zero_grad"
    /\ batch_ops' = Append(batch_ops, "zero_grad")
    /\ pc' = "forward"
    /\ UNCHANGED <<confVars, buildVars, optVars, modeVars, has_graph, grad, epoch,
                   trainLocals, data_len, testLocals, console, saved, failVars, orderVars,
                   n_batches, pass_updates, pass_samples, pass_reports>>

\* optimizer.zero_grad()
ZeroGrad ==
    /\ pc = "zero_grad"
    /\ grad' = {}
    /\ batch_ops' = Append(batch_ops, "zero_grad")
    /\ pc' = "forward"
    /\ UNCHANGED <<confVars, buildVars, optVars, modeVars, has_graph, epoch, trainLocals,
                   data_len, testLocals, console, saved, failVars, orderVars, n_batches,
                   pass_updates, pass_samples, pass_reports>>

\* output = model(data): the graph is recorded only while gradients are tracked
Forward ==
    /\ pc = "forward"
    /\ has_graph' = grad_enabled
    /\ batch_ops' = Append(batch_ops, "forward")
    /\ pc' = "loss"
    /\ UNCHANGED <<confVars, buildVars, optVars, modeVars, grad, epoch, trainLocals,
                   data_len, testLocals, console, saved, failVars, orderVars, n_batches,
                   pass_updates, pass_samples, pass_reports>>

\* loss = F.nll_loss(output, target)
Loss ==
    /\ pc = "loss"
    /\ \E l \in {0, MaxLoss} : loss' = l
    /\ batch_ops' = Append(batch_ops, "loss")
    /\ pc' = "backward"
    /\ UNCHANGED <<confVars, buildVars, optVars, modeVars, has_graph, grad, epoch,
                   batch_idx, data_len, testLocals, console, saved, failVars, orderVars,
                   n_batches, pass_updates, pass_samples, pass_reports>>

\* loss.backward(): adds this batch's gradient to .grad; raises without a graph
Backward ==
    /\ pc = "backward"
    /\ IF has_graph
       THEN /\ grad' = grad \cup {Tag}
            /\ batch_ops' = Append(batch_ops, "backward")
            /\ pc' = "step"
            /\ UNCHANGED failVars
       ELSE /\ pc' = "failed"
            /\ fail_pc' = "backward"
            /\ fail_cause' = "runtime"
            /\ UNCHANGED <<grad, batch_ops>>
    /\ UNCHANGED <<confVars, buildVars, optVars, modeVars, has_graph, epoch, trainLocals,
                   data_len, testLocals, console, saved, orderVars, n_batches,
                   pass_updates, pass_samples, pass_reports>>

\* optimizer.step(): one Adadelta update of the parameters and accumulators
OptStep ==
    /\ pc = "step"
    /\ params' = params + 1
    /\ opt_acc' = opt_acc + 1
    /\ batch_ops' = Append(batch_ops, "step")
    /\ pass_updates' = Append(pass_updates, batch_idx)
    /\ pass_samples' = pass_samples + data_len
    /\ pc' = "log"
    /\ UNCHANGED <<confVars, buildVars, lr, last_epoch, modeVars, has_graph, grad, epoch,
                   trainLocals, data_len, testLocals, console, saved, failVars, orderVars,
                   n_batches, pass_reports>>

\* the line train() prints
TrainReport ==
    [kind |-> "train", epoch |-> epoch, done |-> batch_idx * data_len,
     total |-> n_train,
     pct |-> RoundHalfEven(100 * batch_idx, NumBatches(n_train, args.batch_size)),
     loss |-> loss]

\* a loop whose report ignores --dry-run
LogNoBreak ==
    /\ pc = "log"
    /\ IF args.log_interval = 0
       THEN /\ pc' = "failed"
            /\ fail_pc' = "log"
            /\ fail_cause' = "config"
            /\ UNCHANGED <<console, pass_reports, trains_done, trainLocals, data_len>>
       ELSE IF batch_idx % args.log_interval = 0
       THEN /\ console' = TrainReport
            /\ pass_reports' = pass_reports + 1
            /\ pc' = "fetch"
            /\ UNCHANGED <<trains_done, failVars, trainLocals, data_len>>
       ELSE /\ pc' = "fetch"
            /\ UNCHANGED <<console, pass_reports, trains_done, failVars, trainLocals,
                           data_len>>
    /\ UNCHANGED <<confVars, buildVars, optVars, modeVars, has_graph, grad, epoch,
                   testLocals, saved, trains_started,
                   tests_started, tests_done, scheds, n_batches, batch_ops,
                   pass_updates, pass_samples>>

\* if batch_idx % args.log_interval == 0: print(...); if args.dry_run: break
Log ==
    /\ pc = "log"
    /\ IF args.log_interval = 0
       THEN /\ pc' = "failed"
            /\ fail_pc' = "log"
            /\ fail_cause' = "config"
            /\ UNCHANGED <<console, pass_reports, trains_done, trainLocals, data_len>>
       ELSE IF batch_idx % args.log_interval = 0
       THEN /\ console' = TrainReport
            /\ pass_reports' = pass_reports + 1
            /\ IF args.dry_run
               THEN /\ trains_done' = trains_done + 1
                    /\ batch_idx' = -1
                    /\ data_len' = 0
                    /\ loss' = 0
                    /\ pc' = "test_enter"
               ELSE /\ pc' = "fetch"
                    /\ UNCHANGED <<trains_done, trainLocals, data_len>>
            /\ UNCHANGED failVars
       ELSE /\ pc' = "fetch"
            /\ UNCHANGED <<console, pass_reports, trains_done, failVars, trainLocals,
                           data_len>>
    /\ UNCHANGED <<confVars, buildVars, optVars, modeVars, has_graph, grad, epoch,
                   testLocals, saved, trains_started,
                   tests_started, tests_done, scheds, n_batches, batch_ops,
                   pass_updates, pass_samples>>

\* ---- test() ----

\* model.eval(); test_loss = 0; correct = 0; with torch.no_grad():
TestEnter ==
    /\ pc = "test_enter"
    /\ training' = FALSE
    /\ test_loss' = 0
    /\ correct' = 0
    /\ prev_grad' = grad_enabled
    /\ grad_enabled' = FALSE
    /\ test_idx' = -1
    /\ tests_started' = tests_started + 1
    /\ pc' = "test_fetch"
    /\ UNCHANGED <<confVars, buildVars, optVars, has_graph, grad, epoch, trainLocals,
                   data_len, console, saved, failVars, trains_started, trains_done,
                   tests_done, scheds, passVars>>

\* the next (data, target) of test_loader, or the end of the with block
TestFetch ==
    /\ pc = "test_fetch"
    /\ IF test_idx + 1 < NumBatches(n_test, args.test_batch_size)
       THEN /\ test_idx' = test_idx + 1
            /\ data_len' = BatchLen(n_test, args.test_batch_size, test_idx + 1)
            /\ pc' = "test_batch"
            /\ UNCHANGED grad_enabled
       ELSE /\ grad_enabled' = prev_grad
            /\ pc' = "test_report"
            /\ UNCHANGED <<test_idx, data_len>>
    /\ UNCHANGED <<confVars, buildVars, optVars, training, prev_grad, has_graph, grad,
                   epoch, trainLocals, test_loss, correct, console, saved, failVars,
                   orderVars, passVars>>

\* F.nll_loss(output, target, reduction='sum').item() on a batch of a fixed set
NllLossSum(S) == SumOver(S, [s \in S |-> eval_set[s].nll])

\* pred.eq(target.view_as(pred)).sum().item() on a batch of a fixed set
CorrectCount(S) == Cardinality({ s \in S : eval_set[s].pred = TestLabel(s) })

\* an evaluation batch that overwrites the totals instead of adding to them
TestBatchAssign(bl, bc) ==
    /\ pc = "test_batch"
    /\ has_graph' = grad_enabled
    /\ test_loss' = bl
    /\ correct' = bc
    /\ pc' = "test_fetch"
    /\ UNCHANGED <<confVars, buildVars, optVars, modeVars, grad, epoch, trainLocals,
                   data_len, test_idx, console, saved, failVars, orderVars, passVars>>

\* an evaluation batch that also applies an optimizer update
TestBatchTrains(bl, bc) ==
    /\ pc = "test_batch"
    /\ has_graph' = grad_enabled
    /\ test_loss' = test_loss + bl
    /\ correct' = correct + bc
    /\ params' = params + 1
    /\ opt_acc' = opt_acc + 1
    /\ pc' = "test_fetch"
    /\ UNCHANGED <<confVars, buildVars, lr, last_epoch, modeVars, grad, epoch,
                   trainLocals, data_len, test_idx, console, saved, failVars, orderVars,
                   passVars>>

\* output = model(data); test_loss += <summed loss>; correct += <matches>
TestBatchOn(bl, bc) ==
    /\ pc = "test_batch"
    /\ has_graph' = grad_enabled
    /\ test_loss' = test_loss + bl
    /\ correct' = correct + bc
    /\ pc' = "test_fetch"
    /\ UNCHANGED <<confVars, buildVars, optVars, modeVars, grad, epoch, trainLocals,
                   data_len, test_idx, console, saved, failVars, orderVars, passVars>>

\* the results tried for a batch of n samples: the summed loss and the
\* number of matches when k of them are classified right with loss 0 and the
\* others wrong with loss MaxLoss
BatchResults(n) == { [loss |-> MaxLoss * (n - k), hits |-> k] : k \in 0..n }

\* a batch of the run: the network's results on it are inputs
TestBatch ==
    \E r \in BatchResults(data_len) : TestBatchOn(r.loss, r.hits)

\* a batch of a fixed evaluation set
TestBatchFixed ==
    TestBatchOn(NllLossSum(BatchSamples(n_test, args.test_batch_size, test_idx)),
                CorrectCount(BatchSamples(n_test, args.test_batch_size, test_idx)))

\* test_loss /= len(dataset); print(...): the mean is kept as an exact
\* fraction; test() returns and its locals end
TestReport ==
    /\ pc = "test_report"
    /\ console' = [kind |-> "test", avg_num |-> test_loss, avg_den |-> n_test,
                   correct |-> correct, total |-> n_test,
                   pct |-> RoundHalfEven(100 * correct, n_test)]
    /\ tests_done' = tests_done + 1
    /\ test_idx' = -1
    /\ test_loss' = 0
    /\ correct' = 0
    /\ data_len' = 0
    /\ pc' = "sched"
    /\ UNCHANGED <<confVars, buildVars, optVars, modeVars, has_graph, grad, epoch,
                   trainLocals, saved, failVars, trains_started, trains_done,
                   tests_started, scheds, passVars>>

\* ---- main(): scheduler and persistence ----

\* a scheduler built with step_size=2
SchedStepEveryOther ==
    /\ pc = "sched"
    /\ last_epoch' = last_epoch + 1
    /\ lr' = IF (last_epoch + 1) % 2 = 0
             THEN <<lr[1] * args.gamma[1], lr[2] * args.gamma[2]>>
             ELSE lr
    /\ scheds' = scheds + 1
    /\ pc' = "epoch_head"
    /\ UNCHANGED <<confVars, buildVars, params, opt_acc, modeVars, has_graph, grad, epoch,
                   trainLocals, data_len, testLocals, console, saved, failVars,
                   trains_started, trains_done, tests_started, tests_done, passVars>>

\* scheduler.step(): lr *= gamma every StepSize-th call
SchedStep ==
    /\ pc = "sched"
    /\ last_epoch' = last_epoch + 1
    /\ lr' = IF (last_epoch + 1) % StepSize = 0
             THEN <<lr[1] * args.gamma[1], lr[2] * args.gamma[2]>>
             ELSE lr
    /\ scheds' = scheds + 1
    /\ pc' = "epoch_head"
    /\ UNCHANGED <<confVars, buildVars, params, opt_acc, modeVars, has_graph, grad, epoch,
                   trainLocals, data_len, testLocals, console, saved, failVars,
                   trains_started, trains_done, tests_started, tests_done, passVars>>

\* a save that ignores --save-model
SaveAlways ==
    /\ pc = "save"
    /\ saved' = Append(saved, [name |-> "mnist_cnn.pt", state |-> params])
    /\ pc' = "done"
    /\ UNCHANGED <<confVars, buildVars, optVars, modeVars, has_graph, grad, epoch,
                   trainLocals, data_len, testLocals, console, failVars, orderVars,
                   passVars>>

\* if args.save_model: torch.save(model.state_dict(), "mnist_cnn.pt")
Save ==
    /\ pc = "save"
    /\ saved' = IF args.save_model
                THEN Append(saved, [name |-> "mnist_cnn.pt", state |-> params])
                ELSE saved
    /\ pc' = "done"
    /\ UNCHANGED <<confVars, buildVars, optVars, modeVars, has_graph, grad, epoch,
                   trainLocals, data_len, testLocals, console, failVars, orderVars,
                   passVars>>

\* ---- failures ----

\* the places where a collaborator can raise: data loading, the numeric
\* substrate, the scheduler, the file system
FailPcs == {"setup", "fetch", "loss", "test_batch", "sched", "save"}

\* the positions inside the with torch.no_grad() block
NoGradPcs == {"test_fetch", "test_batch"}

CanRaise == pc \in FailPcs /\ (pc = "save" => args.save_model)

\* an evaluation pass that switches the mode by hand, without a scoped block
RaiseNoRestore ==
    /\ CanRaise
    /\ pc' = "failed"
    /\ fail_pc' = pc
    /\ fail_cause' = "runtime"
    /\ UNCHANGED <<confVars, buildVars, optVars, modeVars, has_graph, grad, epoch,
                   trainLocals, data_len, testLocals, console, saved, orderVars,
                   passVars>>

\* an exception propagates out of main(); no_grad().__exit__ runs on the way
Raise ==
    /\ CanRaise
    /\ pc' = "failed"
    /\ fail_pc' = pc
    /\ fail_cause' = "runtime"
    /\ grad_enabled' = IF pc \in NoGradPcs THEN prev_grad ELSE grad_enabled
    /\ UNCHANGED <<confVars, buildVars, optVars, training, prev_grad, has_graph, grad,
                   epoch, trainLocals, data_len, testLocals, console, saved, orderVars,
                   passVars>>

Next ==
    \/ ParseArgs \/ Setup \/ Build \/ EpochHead
    \/ TrainEnter \/ TrainFetch \/ ZeroGrad \/ Forward \/ Loss \/ Backward
    \/ OptStep \/ Log
    \/ TestEnter \/ TestFetch \/ TestBatch \/ TestReport
    \/ SchedStep \/ Save \/ Raise

Spec == Init /\ [][Next]_vars

\* ---- one evaluation pass over a fixed evaluation set ----

\* the state at the call of test() in epoch 1, after a one-batch training
\* pass, with the network's results on dataset2 fixed
InitEval ==
    /\ pc = "test_enter"
    /\ \E tb \in 1..(MaxBatch + 1) :
          args = [epochs |-> 1, batch_size |-> 1, test_batch_size |-> tb,
                  log_interval |-> 1, dry_run |-> FALSE, save_model |-> FALSE,
                  lr |-> 1, gamma |-> <<7, 10>>]
    /\ n_train = 1
    /\ n_test \in 1..MaxSamples
    /\ eval_set \in [1..n_test -> Outcome]
    /\ model_built = TRUE /\ opt_built = TRUE
    /\ params = 1 /\ opt_acc = 1 /\ lr = <<1, 1>> /\ last_epoch = 0
    /\ training = TRUE /\ grad_enabled = TRUE /\ prev_grad = TRUE
    /\ has_graph = TRUE /\ grad = {<<1, 0>>}
    /\ epoch = 1 /\ batch_idx = 0 /\ data_len = 1 /\ loss = 0
    /\ test_idx = -1 /\ test_loss = 0 /\ correct = 0
    /\ console = [kind |-> "train", epoch |-> 1, done |-> 0, total |-> 1,
                  pct |-> 0, loss |-> 0]
    /\ saved = <<>>
    /\ fail_pc = "none" /\ fail_cause = "none"
    /\ trains_started = 1 /\ trains_done = 1 /\ tests_started = 0
    /\ tests_done = 0 /\ scheds = 0
    /\ n_batches = 1
    /\ batch_ops = <<"zero_grad", "forward", "loss", "backward", "step">>
    /\ pass_updates = <<0>>
    /\ pass_samples = 1 /\ pass_reports = 1

NextEval == TestEnter \/ TestFetch \/ TestBatchFixed \/ TestReport

SpecEval == InitEval /\ [][NextEval]_vars

\* ---- properties ----

\* the position of the run, also after a failure
Pos == IF pc = "failed" THEN fail_pc ELSE pc

\* the positions between taking a training batch and applying its update
BatchPcs == {"zero_grad", "forward", "loss", "backward", "step"}

\* the positions inside train()
TrainPcs == BatchPcs \cup {"fetch", "log"}

IsPrefix(s, t) == Len(s) <= Len(t) /\ \A i \in 1..Len(s) : s[i] = t[i]

\* C1: for epoch = 1..E in increasing order the run does one training pass,
\* then one evaluation pass, then one scheduler advance; a pass never starts
\* before the one in front of it has ended, no pass of the next epoch starts
\* before the advance, and a run that ends has done E of each.
EpochOrder ==
    /\ scheds <= tests_done
    /\ tests_done <= tests_started
    /\ tests_started <= trains_done
    /\ trains_done <= trains_started
    /\ trains_started <= scheds + 1
    /\ epoch <= args.epochs
    /\ trains_started = (IF Pos = "train_enter" THEN epoch - 1 ELSE epoch)
    /\ Pos \in TrainPcs => trains_done = trains_started - 1
    /\ Pos \in {"test_fetch", "test_batch", "test_report"} =>
          /\ tests_started = trains_started
          /\ tests_done = tests_started - 1
    /\ Pos = "sched" => tests_done = trains_started /\ scheds = tests_done - 1
    /\ pc = "done" =>
          /\ trains_started = args.epochs /\ trains_done = args.epochs
          /\ tests_started = args.epochs /\ tests_done = args.epochs
          /\ scheds = args.epochs

\* a run of MaxEpochs epochs has ended with that many passes and advances
EpochOrderWitness ==
    /\ pc = "done"
    /\ args.epochs = MaxEpochs
    /\ trains_done = MaxEpochs /\ tests_done = MaxEpochs /\ scheds = MaxEpochs

\* the order of the steps on one training batch
TrainOrder == <<"zero_grad", "forward", "loss", "backward", "step">>

\* C2: every training batch goes through reset, forward, loss, backward,
\* apply-update in that order; when the update is applied the gradient
\* buffers hold the gradient of the current batch only, and a backward pass
\* always starts from buffers reset since the previous backward pass.
GradientProtocol ==
    /\ Pos \in BatchPcs \cup {"log"} => IsPrefix(batch_ops, TrainOrder)
    /\ Pos = "zero_grad" => batch_ops = <<>>
    /\ Pos = "forward" => Len(batch_ops) = 1
    /\ Pos = "loss" => Len(batch_ops) = 2
    /\ Pos = "backward" => Len(batch_ops) = 3 /\ grad = {}
    /\ Pos = "step" => Len(batch_ops) = 4 /\ grad = {Tag}
    /\ Pos = "log" => batch_ops = TrainOrder /\ grad = {Tag}

\* an update is about to be applied in the second epoch, on a batch that is
\* not the first of its pass
GradientProtocolWitness ==
    /\ pc = "step"
    /\ epoch = 2
    /\ batch_idx >= 1
    /\ grad = {<<2, batch_idx>>}

\* the updates a pass without --dry-run applies: every batch, in loader order
AllTrainBatches == [i \in 1..NumBatches(n_train, args.batch_size) |-> i - 1]

\* C3: with --dry-run every training pass ends right after its first
\* progress line: for log-interval >= 1 it processes at most log-interval
\* batches, and the updates it applied are a prefix of those a pass without
\* --dry-run applies (which are all the batches, in order).
DryRunStopsAfterFirstReport ==
    n_train > 0 =>
       /\ IsPrefix(pass_updates, AllTrainBatches)
       /\ (~args.dry_run /\ trains_started > 0 /\ trains_done = trains_started) =>
             pass_updates = AllTrainBatches
       /\ (args.dry_run /\ args.log_interval >= 1) =>
             /\ Len(pass_updates) <= args.log_interval
             /\ pass_reports <= 1
             /\ pass_reports = 1 => trains_done = trains_started

\* a dry run has left the training pass of the second epoch after one batch
\* of three, with a log interval of two
DryRunWitness ==
    /\ args.dry_run
    /\ args.log_interval = 2
    /\ NumBatches(n_train, args.batch_size) = 3
    /\ epoch = 2
    /\ pc = "test_enter"
    /\ pass_updates = <<0>>
    /\ pass_reports = 1

\* the samples of the first k evaluation batches
FirstBatches(k) == { s \in 1..n_test : s <= k * args.test_batch_size }

\* C4: each evaluation sample contributes once to the summed loss and to the
\* correct-count, whatever the batch size (a final partial batch, a batch
\* larger than the set): the mean loss printed is the sum of the per-sample
\* losses over the set size and the count printed is the number of samples
\* whose arg-max class is the label, neither depending on the batch size.
EvalTotals ==
    /\ pc = "test_fetch" =>
          /\ test_loss = NllLossSum(FirstBatches(test_idx + 1))
          /\ correct = CorrectCount(FirstBatches(test_idx + 1))
    /\ console.kind = "test" =>
          /\ console.avg_num = NllLossSum(1..n_test)
          /\ console.avg_den = n_test
          /\ console.correct = CorrectCount(1..n_test)
          /\ console.total = n_test
          /\ (\A s \in 1..n_test : eval_set[s].pred = TestLabel(s)) => console.pct = 100
          /\ (\A s \in 1..n_test : eval_set[s].pred # TestLabel(s)) => console.pct = 0

\* a set of three samples was evaluated in batches of two, the last one
\* partial, with some but not all samples right
EvalTotalsWitness ==
    /\ console.kind = "test"
    /\ n_test = 3
    /\ args.test_batch_size = 2
    /\ console.avg_num > 0
    /\ console.correct = 2

\* lr = S0 * gamma^n, on fractions
IsDecayed(n) ==
    lr[1] * Pow(args.gamma[2], n) = args.lr * Pow(args.gamma[1], n) * lr[2]

\* C5: after n scheduler advances the optimizer's step-size is S0 * g^n, so
\* it is S0 * g^(e-1) during the whole training pass of epoch e and changes
\* at an epoch boundary only.
StepSizeDecay ==
    /\ scheds <= args.epochs
    /\ opt_built => IsDecayed(scheds)
    /\ Pos \in TrainPcs => IsDecayed(epoch - 1)

\* an update of the second epoch is about to be applied with lr = 2 * (1/2)
StepSizeDecayWitness ==
    /\ pc = "step"
    /\ epoch = 2
    /\ args.lr = 2
    /\ lr = <<2, 2>>

\* C6: the 'samples processed so far' of every progress line is the number
\* of samples the pass has taken through forward, backward and apply-update,
\* and never exceeds the total printed.
ReportedSamplesAreProcessed ==
    (pc = "log" /\ args.log_interval > 0 /\ batch_idx % args.log_interval = 0) =>
       /\ TrainReport.done = pass_samples
       /\ TrainReport.done <= TrainReport.total

\* C7: the parameters and the optimizer accumulators change at an
\* apply-update step only, once per training batch: evaluation, reports,
\* scheduler advances and the save leave them as the training pass left them.
ParamsChangeOnlyAtStep ==
    /\ params = opt_acc
    /\ params = (IF Pos \in BatchPcs THEN n_batches - 1 ELSE n_batches)
    /\ \A i \in 1..Len(saved) : saved[i].state = params

\* the evaluation pass of the second epoch has ended with the parameters of
\* the training passes
ParamsWitness ==
    /\ pc = "sched"
    /\ tests_done = 2
    /\ n_batches >= 2
    /\ params = n_batches

\* C8: the parameters are saved once, under the fixed name, after all epochs
\* and only then, if and only if --save-model was given; a failure of a
\* training pass, an evaluation pass or a scheduler advance ends the run at
\* that point with nothing saved.
SaveOnlyAfterAllEpochs ==
    /\ Len(saved) <= 1
    /\ Len(saved) = 1 =>
          /\ args.save_model
          /\ pc = "done"
          /\ scheds = args.epochs
          /\ saved[1].name = "mnist_cnn.pt"
    /\ pc = "done" => Len(saved) = (IF args.save_model THEN 1 ELSE 0)
    /\ fail_cause # "none" => pc = "failed" /\ saved = <<>>
    /\ pc = "failed" => fail_cause # "none"

\* a run of MaxEpochs epochs with --save-model has ended with one file
SaveWitness ==
    /\ pc = "done"
    /\ args.epochs = MaxEpochs
    /\ args.save_model
    /\ Len(saved) = 1
    /\ saved[1].state = params

\* C9: gradient tracking is off during every forward pass of an evaluation
\* pass and back on when the pass is left, normally or by an error on a
\* batch; every forward pass of training runs with tracking on.
NoGradScoped ==
    /\ pc \in NoGradPcs => ~grad_enabled
    /\ pc \notin NoGradPcs => grad_enabled
    /\ pc \in {"loss", "backward", "step"} => has_graph

\* an evaluation pass has failed on its second batch and tracking is on again
NoGradWitness ==
    /\ pc = "failed"
    /\ fail_pc = "test_batch"
    /\ test_idx = 1
    /\ grad_enabled

\* C10: a run that fails because of its configuration fails before the
\* Model and the Optimizer are constructed and before any update is applied.
ConfigFailureBeforeTrainingState ==
    (pc = "failed" /\ fail_cause = "config") =>
       /\ ~model_built
       /\ ~opt_built
       /\ params = 0

====
